---------------------------- MODULE Spec2Model ----------------------------
(***************************************************************************)
(* Model of the asynchronous command sequencer and the frame codec of the  *)
(* MCP2515 SPI CAN controller driver (mcp2515.c).                          *)
(*                                                                         *)
(* Three execution contexts touch the chip context (struct mcp2515_priv):  *)
(*   - the interrupt handler            (irq_pc),                          *)
(*   - the transmit path of the net core (xmit_pc, xmit_skb),              *)
(*   - the SPI completion callback       (cb).                             *)
(* Each handler is split where the source leaves the spinlock and calls    *)
(* spi_async: the part up to the unlock is one step, the issue of the next *)
(* command is a second step, so producers interleave with both.            *)
(* The replies of the chip (CANINTF/EFLG values, allocation results, the   *)
(* result of spi_async) are inputs drawn from small sets.                  *)
(***************************************************************************)
EXTENDS Integers, Sequences, FiniteSets, TLC

(* ------------------------------ bounds -------------------------------- *)
\* number of valid frames the upper layer submits in one behaviour
MaxFrames == 2
\* number of flags reads that return a nonzero CANINTF or EFLG in one behaviour
MaxChipEvents == 2

(* ------------------------- program constants --------------------------- *)
RXBSIDL_SRR == 16
RXBSIDL_IDE == 8
RXBDLC_RTR == 64
CANINTF_ERRIF == 32
CANINTF_TX0IF == 4
CANINTF_RX1IF == 2
CANINTF_RX0IF == 1
EFLG_RX1OVR == 128
EFLG_RX0OVR == 64
CAN_MAX_DLC == 8

(* --------------------------- bit arithmetic ---------------------------- *)
RECURSIVE BitAnd(_, _)
BitAnd(a, b) ==
    IF a = 0 \/ b = 0 THEN 0
    ELSE (a % 2) * (b % 2) + 2 * BitAnd(a \div 2, b \div 2)

RECURSIVE BitOr(_, _)
BitOr(a, b) ==
    IF a = 0 THEN b
    ELSE IF b = 0 THEN a
    ELSE (IF a % 2 = 1 \/ b % 2 = 1 THEN 1 ELSE 0)
         + 2 * BitOr(a \div 2, b \div 2)

\* the bit b of x as 0 or 1
Bit(x, b) == IF BitAnd(x, b) # 0 THEN 1 ELSE 0

\* u8 truncation of an assignment to a byte
U8(x) == x % 256
\* ~m on a byte
NotU8(m) == 255 - m

(* ------------------------------- state --------------------------------- *)
VARIABLES
    up,              \* device is between mcp2515_open and mcp2515_stop
    queue_stopped,   \* netif queue state (netif_stop_queue / netif_wake_queue)
    busy,            \* priv->busy
    interrupt,       \* priv->interrupt
    transmit,        \* priv->transmit
    skb,             \* priv->skb: 0 is NULL, n > 0 is the n-th submitted frame
    canintf,         \* priv->canintf
    eflg,            \* priv->eflg
    inflight,        \* priv->message handed to spi_async and not yet completed
    irq_pc,          \* interrupt handler: command it is about to issue
    xmit_pc,         \* start_xmit: command it is about to issue
    xmit_skb,        \* start_xmit: its skb argument
    xmit_ret,        \* last value returned by start_xmit
    cb,              \* completion callback: running handler and next command
    failed,          \* spi_async has returned an error
    oops,            \* a NULL skb was dereferenced
    rx_packets,      \* dev->stats.rx_packets (frames given to netif_rx)
    rx_dropped,      \* dev->stats.rx_dropped
    rx_over_errors,  \* dev->stats.rx_over_errors
    tx_packets,      \* dev->stats.tx_packets
    tx_bytes,        \* dev->stats.tx_bytes
    last_echo,       \* last frame echoed by can_put_echo_skb / can_get_echo_skb
    nsubmitted,      \* valid frames handed to start_xmit so far
    chip_events,     \* flags reads that returned a nonzero register so far
    rd0,             \* completed reads of receive buffer 0 since the last flags read
    rd1,             \* completed reads of receive buffer 1 since the last flags read
    txb0,            \* frame of the last completed load of transmit buffer 0
    rts_frame,       \* frame of the last completed request-to-send
    skb_idle,        \* the frame in priv->skb was submitted while busy was clear
    irq_unserved,    \* an interrupt found busy set and no flags read was sent since
    frame,           \* codec: the CAN frame to encode
    tx_buf,          \* codec: bytes written by mcp2515_set_txbuf
    rx_frame,        \* codec: frame decoded by mcp2515_read_rxb_complete
    codec_pc         \* codec: position of the round trip

flagv == <<busy, interrupt, transmit>>
regv == <<canintf, eflg>>
irqv == <<irq_pc>>
xmitv == <<xmit_pc, xmit_skb, xmit_ret>>
rxstatv == <<rx_packets, rx_dropped>>
txstatv == <<tx_packets, tx_bytes, last_echo>>
cyclev == <<rd0, rd1>>
txghostv == <<txb0, rts_frame, skb_idle>>
codecv == <<frame, tx_buf, rx_frame, codec_pc>>
seqv == <<up, queue_stopped, busy, interrupt, transmit, skb, canintf, eflg,
          inflight, irq_pc, xmit_pc, xmit_skb, xmit_ret, cb, failed, oops,
          rx_packets, rx_dropped, rx_over_errors, tx_packets, tx_bytes,
          last_echo, nsubmitted, chip_events, rd0, rd1, txb0, rts_frame,
          skb_idle, irq_unserved>>
vars == <<seqv, codecv>>

(* ------------------------------ inputs --------------------------------- *)
\* values the chip returns for CANINTF: nothing, each receive bit, both, the
\* transmit bit alone and with a receive bit, the error bit alone and with
\* the transmit bit
CanintfReplies ==
    {0, CANINTF_RX0IF, CANINTF_RX1IF, CANINTF_RX0IF + CANINTF_RX1IF,
     CANINTF_TX0IF, CANINTF_TX0IF + CANINTF_RX0IF, CANINTF_ERRIF,
     CANINTF_ERRIF + CANINTF_TX0IF}
\* values the chip returns for EFLG: none, either, both overflow bits, another bit
EflgReplies == {0, EFLG_RX0OVR, EFLG_RX1OVR, EFLG_RX0OVR + EFLG_RX1OVR, 1}

\* frame->can_dlc of the n-th submitted frame
can_dlc(f) == f

Cmd(op, arg) == [op |-> op, arg |-> arg]
CbIdle == [h |-> "none", next |-> "none"]
Cb(h, next) == [h |-> h, next |-> next]

(* ------------------------- the frame codec ----------------------------- *)
\* get_can_dlc(): clamp a data length code to CAN_MAX_DLC
get_can_dlc(i) == IF i > CAN_MAX_DLC THEN CAN_MAX_DLC ELSE i

\* C index into a TLA+ sequence
At(buf, i) == buf[i + 1]

\* variant: identifier bits 16 and 17 of an extended frame are left out
mcp2515_set_txbuf_eid_lost(f) ==
    LET id == f.id
        b0 == IF f.eff THEN U8(id \div 2097152) ELSE U8(id \div 8)
        b1 == IF f.eff
              THEN U8(BitOr(BitAnd(id \div 8192, 224), 8))
              ELSE U8(id * 32)
        b2 == IF f.eff THEN U8(id \div 256) ELSE 0
        b3 == IF f.eff THEN U8(id) ELSE 0
        b4 == IF f.rtr THEN U8(BitOr(f.dlc, 64)) ELSE U8(f.dlc)
    IN  <<b0, b1, b2, b3, b4>> \o SubSeq(f.data, 1, f.dlc)

\* can_id is kept as its three parts: CAN_EFF_FLAG (bit 31), CAN_RTR_FLAG
\* (bit 30) and the low 29 bits; every shift in the codec is by less than 29
\* and is truncated to a byte, so the flag bits never reach a buffer byte.
mcp2515_set_txbuf(f) ==
    LET id == f.id
        b0 == IF f.eff THEN U8(id \div 2097152) ELSE U8(id \div 8)
        b1 == IF f.eff
              THEN U8(BitOr(BitOr(BitAnd(id \div 8192, 224), 8),
                            BitAnd(id \div 65536, 3)))
              ELSE U8(id * 32)
        b2 == IF f.eff THEN U8(id \div 256) ELSE 0
        b3 == IF f.eff THEN U8(id) ELSE 0
        b4 == IF f.rtr THEN U8(BitOr(f.dlc, 64)) ELSE U8(f.dlc)
    IN  <<b0, b1, b2, b3, b4>> \o SubSeq(f.data, 1, f.dlc)

\* the decode of mcp2515_read_rxb_complete; buf[0] is the instruction byte
mcp2515_read_rxb_decode(buf) ==
    LET ide == BitAnd(At(buf, 2), RXBSIDL_IDE) # 0
        id == IF ide
              THEN BitOr(BitOr(BitOr(At(buf, 1) * 2097152,
                                     BitAnd(At(buf, 2), 224) * 8192),
                               BitOr(BitAnd(At(buf, 2), 3) * 65536,
                                     At(buf, 3) * 256)),
                         At(buf, 4))
              ELSE BitOr(At(buf, 1) * 8, At(buf, 2) \div 32)
        rtr == IF ide
               THEN BitAnd(At(buf, 5), RXBDLC_RTR) # 0
               ELSE BitAnd(At(buf, 2), RXBSIDL_SRR) # 0
        dlc == get_can_dlc(BitAnd(At(buf, 5), 15))
    IN  [eff |-> ide, rtr |-> rtr, id |-> id, dlc |-> dlc,
         data |-> [i \in 1..8 |-> IF i <= dlc THEN At(buf, 5 + i) ELSE 0]]

(* ------------------------- command issue ------------------------------- *)
\* variant: a failed spi_async is handed over again
mcp2515_spi_async_retries(cmd, err) ==
    /\ inflight' = Append(inflight, cmd)
    /\ failed' = (failed \/ err)
    /\ irq_unserved' = (irq_unserved /\ (err \/ cmd.op # "read_flags"))

\* mcp2515_spi_async: hand priv->message to spi_async; an error is only logged
mcp2515_spi_async(cmd, err) ==
    /\ inflight' = IF err THEN inflight ELSE Append(inflight, cmd)
    /\ failed' = (failed \/ err)
    /\ irq_unserved' = (irq_unserved /\ (err \/ cmd.op # "read_flags"))

\* the command built by each of the seven asynchronous senders
mcp2515_read_flags == Cmd("read_flags", 0)
mcp2515_read_rxb0 == Cmd("read_rxb0", 144)
mcp2515_read_rxb1 == Cmd("read_rxb1", 148)
mcp2515_clear_canintf ==
    Cmd("clear_canintf", BitAnd(canintf, NotU8(BitOr(CANINTF_RX0IF, CANINTF_RX1IF))))
mcp2515_clear_eflg == Cmd("clear_eflg", eflg)
mcp2515_load_txb0(s) == Cmd("load_txb0", s)
mcp2515_rts_txb0 == Cmd("rts_txb0", 129)

(* ------------------------- interrupt handler --------------------------- *)
\* variant: the handler does not look at busy
mcp2515_interrupt_nobusy ==
    /\ up /\ ~oops /\ irq_pc = "none"
    /\ busy' = TRUE
    /\ irq_pc' = "read_flags"
    /\ UNCHANGED <<interrupt, irq_unserved>>
    /\ UNCHANGED <<up, queue_stopped, transmit, skb, regv, inflight, xmitv, cb,
                   failed, oops, rxstatv, rx_over_errors, txstatv, nsubmitted,
                   chip_events, cyclev, txghostv, codecv>>

\* variant: the handler records the interrupt whatever busy is
mcp2515_interrupt_only_flags ==
    /\ up /\ ~oops /\ irq_pc = "none"
    /\ interrupt' = TRUE
    /\ irq_unserved' = TRUE
    /\ UNCHANGED <<busy, irq_pc>>
    /\ UNCHANGED <<up, queue_stopped, transmit, skb, regv, inflight, xmitv, cb,
                   failed, oops, rxstatv, rx_over_errors, txstatv, nsubmitted,
                   chip_events, cyclev, txghostv, codecv>>

mcp2515_interrupt ==
    /\ up /\ ~oops /\ irq_pc = "none"
    /\ IF busy
       THEN /\ interrupt' = TRUE
            /\ irq_unserved' = TRUE
            /\ UNCHANGED <<busy, irq_pc>>
       ELSE /\ busy' = TRUE
            /\ irq_pc' = "read_flags"
            /\ UNCHANGED <<interrupt, irq_unserved>>
    /\ UNCHANGED <<up, queue_stopped, transmit, skb, regv, inflight, xmitv, cb,
                   failed, oops, rxstatv, rx_over_errors, txstatv, nsubmitted,
                   chip_events, cyclev, txghostv, codecv>>

mcp2515_interrupt_issue ==
    /\ ~oops /\ irq_pc = "read_flags"
    /\ \E err \in BOOLEAN : mcp2515_spi_async(mcp2515_read_flags, err)
    /\ irq_pc' = "none"
    /\ UNCHANGED <<up, queue_stopped, flagv, skb, regv, xmitv, cb, oops,
                   rxstatv, rx_over_errors, txstatv, nsubmitted, chip_events,
                   cyclev, txghostv, codecv>>

(* --------------------------- transmit path ----------------------------- *)
\* variant: a submission that finds busy set sends its load all the same
mcp2515_start_xmit_sends(valid) ==
    /\ up /\ ~oops /\ ~queue_stopped /\ xmit_pc = "none"
    /\ nsubmitted < MaxFrames
    /\ IF ~valid
       THEN /\ xmit_ret' = "NETDEV_TX_OK"
            /\ UNCHANGED <<queue_stopped, skb, flagv, xmit_pc, xmit_skb,
                           skb_idle, nsubmitted>>
       ELSE /\ nsubmitted' = nsubmitted + 1
            /\ queue_stopped' = TRUE
            /\ skb' = nsubmitted + 1
            /\ skb_idle' = ~busy
            /\ busy' = TRUE
            /\ transmit' = (transmit \/ busy)
            /\ xmit_pc' = "load_txb0"
            /\ xmit_skb' = nsubmitted + 1
            /\ UNCHANGED <<interrupt, xmit_ret>>
    /\ UNCHANGED <<up, regv, inflight, irq_pc, cb, failed, oops, rxstatv,
                   rx_over_errors, txstatv, chip_events, cyclev, txb0, rts_frame,
                   codecv,
                   irq_unserved>>

\* variant: a submission that finds busy set is rejected and stores nothing
mcp2515_start_xmit_rejects(valid) ==
    /\ up /\ ~oops /\ ~queue_stopped /\ xmit_pc = "none"
    /\ nsubmitted < MaxFrames
    /\ IF ~valid
       THEN /\ xmit_ret' = "NETDEV_TX_OK"
            /\ UNCHANGED <<queue_stopped, skb, flagv, xmit_pc, xmit_skb,
                           skb_idle, nsubmitted>>
       ELSE IF busy
       THEN /\ xmit_ret' = "NETDEV_TX_BUSY"
            /\ UNCHANGED <<queue_stopped, skb, flagv, xmit_pc, xmit_skb,
                           skb_idle, nsubmitted>>
       ELSE /\ nsubmitted' = nsubmitted + 1
            /\ queue_stopped' = TRUE
            /\ skb' = nsubmitted + 1
            /\ skb_idle' = TRUE
            /\ busy' = TRUE
            /\ xmit_pc' = "load_txb0"
            /\ xmit_skb' = nsubmitted + 1
            /\ UNCHANGED <<interrupt, transmit, xmit_ret>>
    /\ UNCHANGED <<up, regv, inflight, irq_pc, cb, failed, oops, rxstatv,
                   rx_over_errors, txstatv, chip_events, cyclev, txb0, rts_frame,
                   codecv,
                   irq_unserved>>

\* the net core calls ndo_start_xmit only while the queue is not stopped
mcp2515_start_xmit(valid) ==
    /\ up /\ ~oops /\ ~queue_stopped /\ xmit_pc = "none"
    /\ nsubmitted < MaxFrames
    /\ IF ~valid
       THEN /\ xmit_ret' = "NETDEV_TX_OK"
            /\ UNCHANGED <<queue_stopped, skb, flagv, xmit_pc, xmit_skb,
                           skb_idle, nsubmitted>>
       ELSE /\ nsubmitted' = nsubmitted + 1
            /\ queue_stopped' = TRUE
            /\ skb' = nsubmitted + 1
            /\ skb_idle' = ~busy
            /\ IF busy
               THEN /\ transmit' = TRUE
                    /\ xmit_ret' = "NETDEV_TX_OK"
                    /\ UNCHANGED <<busy, interrupt, xmit_pc, xmit_skb>>
               ELSE /\ busy' = TRUE
                    /\ xmit_pc' = "load_txb0"
                    /\ xmit_skb' = nsubmitted + 1
                    /\ UNCHANGED <<interrupt, transmit, xmit_ret>>
    /\ UNCHANGED <<up, regv, inflight, irq_pc, cb, failed, oops, rxstatv,
                   rx_over_errors, txstatv, chip_events, cyclev, txb0, rts_frame,
                   codecv,
                   irq_unserved>>

\* variant: an idle submission starts the chain with the flags read
mcp2515_start_xmit_issue_reads_flags ==
    /\ ~oops /\ xmit_pc = "load_txb0"
    /\ \E err \in BOOLEAN : mcp2515_spi_async(mcp2515_read_flags, err)
    /\ xmit_pc' = "none"
    /\ xmit_skb' = 0
    /\ xmit_ret' = "NETDEV_TX_OK"
    /\ UNCHANGED <<up, queue_stopped, flagv, skb, regv, irq_pc, cb, oops,
                   rxstatv, rx_over_errors, txstatv, nsubmitted, chip_events,
                   cyclev, txghostv, codecv>>

mcp2515_start_xmit_issue ==
    /\ ~oops /\ xmit_pc = "load_txb0"
    /\ \E err \in BOOLEAN : mcp2515_spi_async(mcp2515_load_txb0(xmit_skb), err)
    /\ xmit_pc' = "none"
    /\ xmit_skb' = 0
    /\ xmit_ret' = "NETDEV_TX_OK"
    /\ UNCHANGED <<up, queue_stopped, flagv, skb, regv, irq_pc, cb, oops,
                   rxstatv, rx_over_errors, txstatv, nsubmitted, chip_events,
                   cyclev, txghostv, codecv>>

(* ---------------------------- lifecycle -------------------------------- *)
\* free_irq and the net core wait for a running handler / transmit call
mcp2515_stop ==
    /\ up /\ ~oops /\ irq_pc = "none" /\ xmit_pc = "none"
    /\ up' = FALSE
    /\ UNCHANGED <<queue_stopped, flagv, skb, regv, inflight, irqv, xmitv, cb,
                   failed, oops, rxstatv, rx_over_errors, txstatv, nsubmitted,
                   chip_events, cyclev, txghostv, codecv,
                   irq_unserved>>

mcp2515_open(ok) ==
    /\ ~up /\ ~oops
    /\ IF ok
       THEN /\ up' = TRUE
            /\ queue_stopped' = FALSE
       ELSE UNCHANGED <<up, queue_stopped>>
    /\ UNCHANGED <<flagv, skb, regv, inflight, irqv, xmitv, cb, failed, oops,
                   rxstatv, rx_over_errors, txstatv, nsubmitted, chip_events,
                   cyclev, txghostv, codecv,
                   irq_unserved>>

(* ----------------------- completion callbacks --------------------------- *)
\* the SPI core calls priv->message.complete for the oldest message handed over
Completes(op) ==
    /\ ~oops /\ cb = CbIdle
    /\ inflight # <<>> /\ Head(inflight).op = op
    /\ inflight' = Tail(inflight)

\* variant: a pending interrupt is cleared without reading the flags again
mcp2515_read_flags_complete_forgets_irq(ci, ef) ==
    /\ Completes("read_flags")
    /\ (ci # 0 \/ ef # 0) => chip_events < MaxChipEvents
    /\ chip_events' = IF ci # 0 \/ ef # 0 THEN chip_events + 1 ELSE chip_events
    /\ canintf' = ci
    /\ eflg' = ef
    /\ rd0' = 0
    /\ rd1' = 0
    /\ IF BitAnd(ci, CANINTF_RX0IF) # 0
       THEN /\ cb' = Cb("read_flags", "read_rxb0")
            /\ UNCHANGED flagv
       ELSE IF BitAnd(ci, CANINTF_RX1IF) # 0
       THEN /\ cb' = Cb("read_flags", "read_rxb1")
            /\ UNCHANGED flagv
       ELSE IF ci # 0
       THEN /\ cb' = Cb("read_flags", "clear_canintf")
            /\ UNCHANGED flagv
       ELSE IF transmit
       THEN /\ transmit' = FALSE
            /\ cb' = Cb("read_flags", "load_txb0")
            /\ UNCHANGED <<busy, interrupt>>
       ELSE IF interrupt
       THEN /\ interrupt' = FALSE
            /\ busy' = FALSE
            /\ cb' = CbIdle
            /\ UNCHANGED transmit
       ELSE /\ busy' = FALSE
            /\ cb' = CbIdle
            /\ UNCHANGED <<interrupt, transmit>>
    /\ UNCHANGED <<up, queue_stopped, skb, irqv, xmitv, failed, oops, rxstatv,
                   rx_over_errors, txstatv, nsubmitted, txghostv, codecv,
                   irq_unserved>>

\* variant: a pending interrupt is served before a pending transmit
mcp2515_read_flags_complete_irq_first(ci, ef) ==
    /\ Completes("read_flags")
    /\ (ci # 0 \/ ef # 0) => chip_events < MaxChipEvents
    /\ chip_events' = IF ci # 0 \/ ef # 0 THEN chip_events + 1 ELSE chip_events
    /\ canintf' = ci
    /\ eflg' = ef
    /\ rd0' = 0
    /\ rd1' = 0
    /\ IF BitAnd(ci, CANINTF_RX0IF) # 0
       THEN /\ cb' = Cb("read_flags", "read_rxb0")
            /\ UNCHANGED flagv
       ELSE IF BitAnd(ci, CANINTF_RX1IF) # 0
       THEN /\ cb' = Cb("read_flags", "read_rxb1")
            /\ UNCHANGED flagv
       ELSE IF ci # 0
       THEN /\ cb' = Cb("read_flags", "clear_canintf")
            /\ UNCHANGED flagv
       ELSE IF interrupt
       THEN /\ interrupt' = FALSE
            /\ cb' = Cb("read_flags", "read_flags")
            /\ UNCHANGED <<busy, transmit>>
       ELSE IF transmit
       THEN /\ transmit' = FALSE
            /\ cb' = Cb("read_flags", "load_txb0")
            /\ UNCHANGED <<busy, interrupt>>
       ELSE /\ busy' = FALSE
            /\ cb' = CbIdle
            /\ UNCHANGED <<interrupt, transmit>>
    /\ UNCHANGED <<up, queue_stopped, skb, irqv, xmitv, failed, oops, rxstatv,
                   rx_over_errors, txstatv, nsubmitted, txghostv, codecv,
                   irq_unserved>>

\* variant: a pending transmit is started before the other status bits are cleared
mcp2515_read_flags_complete_tx_first(ci, ef) ==
    /\ Completes("read_flags")
    /\ (ci # 0 \/ ef # 0) => chip_events < MaxChipEvents
    /\ chip_events' = IF ci # 0 \/ ef # 0 THEN chip_events + 1 ELSE chip_events
    /\ canintf' = ci
    /\ eflg' = ef
    /\ rd0' = 0
    /\ rd1' = 0
    /\ IF BitAnd(ci, CANINTF_RX0IF) # 0
       THEN /\ cb' = Cb("read_flags", "read_rxb0")
            /\ UNCHANGED flagv
       ELSE IF BitAnd(ci, CANINTF_RX1IF) # 0
       THEN /\ cb' = Cb("read_flags", "read_rxb1")
            /\ UNCHANGED flagv
       ELSE IF transmit
       THEN /\ transmit' = FALSE
            /\ cb' = Cb("read_flags", "load_txb0")
            /\ UNCHANGED <<busy, interrupt>>
       ELSE IF ci # 0
       THEN /\ cb' = Cb("read_flags", "clear_canintf")
            /\ UNCHANGED flagv
       ELSE IF interrupt
       THEN /\ interrupt' = FALSE
            /\ cb' = Cb("read_flags", "read_flags")
            /\ UNCHANGED <<busy, transmit>>
       ELSE /\ busy' = FALSE
            /\ cb' = CbIdle
            /\ UNCHANGED <<interrupt, transmit>>
    /\ UNCHANGED <<up, queue_stopped, skb, irqv, xmitv, failed, oops, rxstatv,
                   rx_over_errors, txstatv, nsubmitted, txghostv, codecv,
                   irq_unserved>>

\* variant: with nothing pending the flags are read again
mcp2515_read_flags_complete_polls(ci, ef) ==
    /\ Completes("read_flags")
    /\ (ci # 0 \/ ef # 0) => chip_events < MaxChipEvents
    /\ chip_events' = IF ci # 0 \/ ef # 0 THEN chip_events + 1 ELSE chip_events
    /\ canintf' = ci
    /\ eflg' = ef
    /\ rd0' = 0
    /\ rd1' = 0
    /\ IF BitAnd(ci, CANINTF_RX0IF) # 0
       THEN /\ cb' = Cb("read_flags", "read_rxb0")
            /\ UNCHANGED flagv
       ELSE IF BitAnd(ci, CANINTF_RX1IF) # 0
       THEN /\ cb' = Cb("read_flags", "read_rxb1")
            /\ UNCHANGED flagv
       ELSE IF ci # 0
       THEN /\ cb' = Cb("read_flags", "clear_canintf")
            /\ UNCHANGED flagv
       ELSE IF transmit
       THEN /\ transmit' = FALSE
            /\ cb' = Cb("read_flags", "load_txb0")
            /\ UNCHANGED <<busy, interrupt>>
       ELSE IF interrupt
       THEN /\ interrupt' = FALSE
            /\ cb' = Cb("read_flags", "read_flags")
            /\ UNCHANGED <<busy, transmit>>
       ELSE /\ cb' = Cb("read_flags", "read_flags")
            /\ UNCHANGED <<busy, interrupt, transmit>>
    /\ UNCHANGED <<up, queue_stopped, skb, irqv, xmitv, failed, oops, rxstatv,
                   rx_over_errors, txstatv, nsubmitted, txghostv, codecv,
                   irq_unserved>>

mcp2515_read_flags_complete(ci, ef) ==
    /\ Completes("read_flags")
    /\ (ci # 0 \/ ef # 0) => chip_events < MaxChipEvents
    /\ chip_events' = IF ci # 0 \/ ef # 0 THEN chip_events + 1 ELSE chip_events
    /\ canintf' = ci
    /\ eflg' = ef
    /\ rd0' = 0
    /\ rd1' = 0
    /\ IF BitAnd(ci, CANINTF_RX0IF) # 0
       THEN /\ cb' = Cb("read_flags", "read_rxb0")
            /\ UNCHANGED flagv
       ELSE IF BitAnd(ci, CANINTF_RX1IF) # 0
       THEN /\ cb' = Cb("read_flags", "read_rxb1")
            /\ UNCHANGED flagv
       ELSE IF ci # 0
       THEN /\ cb' = Cb("read_flags", "clear_canintf")
            /\ UNCHANGED flagv
       ELSE IF transmit
       THEN /\ transmit' = FALSE
            /\ cb' = Cb("read_flags", "load_txb0")
            /\ UNCHANGED <<busy, interrupt>>
       ELSE IF interrupt
       THEN /\ interrupt' = FALSE
            /\ cb' = Cb("read_flags", "read_flags")
            /\ UNCHANGED <<busy, transmit>>
       ELSE /\ busy' = FALSE
            /\ cb' = CbIdle
            /\ UNCHANGED <<interrupt, transmit>>
    /\ UNCHANGED <<up, queue_stopped, skb, irqv, xmitv, failed, oops, rxstatv,
                   rx_over_errors, txstatv, nsubmitted, txghostv, codecv,
                   irq_unserved>>

\* alloc_can_skb fails: count the drop and return; else count and deliver
mcp2515_read_rxb_complete(alloc_ok) ==
    IF alloc_ok
    THEN /\ rx_packets' = rx_packets + 1
         /\ UNCHANGED rx_dropped
    ELSE /\ rx_dropped' = rx_dropped + 1
         /\ UNCHANGED rx_packets

mcp2515_transmit_or_read_flags(h) ==
    IF transmit
    THEN /\ transmit' = FALSE
         /\ cb' = Cb(h, "load_txb0")
    ELSE /\ cb' = Cb(h, "read_flags")
         /\ UNCHANGED transmit

\* variant: receive buffer 1 is read after buffer 0 whatever the flags said
mcp2515_read_rxb0_complete_always_rxb1(alloc_ok) ==
    /\ Completes("read_rxb0")
    /\ mcp2515_read_rxb_complete(alloc_ok)
    /\ rd0' = rd0 + 1
    /\ cb' = Cb("read_rxb0", "read_rxb1")
    /\ UNCHANGED transmit
    /\ UNCHANGED <<up, queue_stopped, busy, interrupt, skb, regv, irqv, xmitv,
                   failed, oops, rx_over_errors, txstatv, nsubmitted,
                   chip_events, rd1, txghostv, codecv,
                   irq_unserved>>

mcp2515_read_rxb0_complete(alloc_ok) ==
    /\ Completes("read_rxb0")
    /\ mcp2515_read_rxb_complete(alloc_ok)
    /\ rd0' = rd0 + 1
    /\ IF BitAnd(canintf, CANINTF_RX1IF) # 0
       THEN /\ cb' = Cb("read_rxb0", "read_rxb1")
            /\ UNCHANGED transmit
       ELSE mcp2515_transmit_or_read_flags("read_rxb0")
    /\ UNCHANGED <<up, queue_stopped, busy, interrupt, skb, regv, irqv, xmitv,
                   failed, oops, rx_over_errors, txstatv, nsubmitted,
                   chip_events, rd1, txghostv, codecv,
                   irq_unserved>>

\* variant: a failed allocation ends the callback without a next command
mcp2515_read_rxb1_complete_stalls(alloc_ok) ==
    /\ Completes("read_rxb1")
    /\ mcp2515_read_rxb_complete(alloc_ok)
    /\ rd1' = rd1 + 1
    /\ IF alloc_ok
       THEN mcp2515_transmit_or_read_flags("read_rxb1")
       ELSE /\ cb' = CbIdle
            /\ UNCHANGED transmit
    /\ UNCHANGED <<up, queue_stopped, busy, interrupt, skb, regv, irqv, xmitv,
                   failed, oops, rx_over_errors, txstatv, nsubmitted,
                   chip_events, rd0, txghostv, codecv,
                   irq_unserved>>

\* variant: after the last receive-buffer read the callback takes the branch
\* of a zero-status flags read: load, or clear interrupt and re-read, or idle
mcp2515_read_rxb1_complete_three_way(alloc_ok) ==
    /\ Completes("read_rxb1")
    /\ mcp2515_read_rxb_complete(alloc_ok)
    /\ rd1' = rd1 + 1
    /\ IF transmit
       THEN /\ transmit' = FALSE
            /\ cb' = Cb("read_rxb1", "load_txb0")
            /\ UNCHANGED <<busy, interrupt>>
       ELSE IF interrupt
       THEN /\ interrupt' = FALSE
            /\ cb' = Cb("read_rxb1", "read_flags")
            /\ UNCHANGED <<busy, transmit>>
       ELSE /\ busy' = FALSE
            /\ cb' = CbIdle
            /\ UNCHANGED <<interrupt, transmit>>
    /\ UNCHANGED <<up, queue_stopped, skb, regv, irqv, xmitv,
                   failed, oops, rx_over_errors, txstatv, nsubmitted,
                   chip_events, rd0, txghostv, codecv,
                   irq_unserved>>

mcp2515_read_rxb1_complete(alloc_ok) ==
    /\ Completes("read_rxb1")
    /\ mcp2515_read_rxb_complete(alloc_ok)
    /\ rd1' = rd1 + 1
    /\ mcp2515_transmit_or_read_flags("read_rxb1")
    /\ UNCHANGED <<up, queue_stopped, busy, interrupt, skb, regv, irqv, xmitv,
                   failed, oops, rx_over_errors, txstatv, nsubmitted,
                   chip_events, rd0, txghostv, codecv,
                   irq_unserved>>

\* variant: the transmitted skb stays in priv->skb
mcp2515_clear_canintf_complete_keeps_skb ==
    /\ Completes("clear_canintf")
    /\ IF BitAnd(canintf, CANINTF_TX0IF) # 0
       THEN /\ IF skb # 0
               THEN /\ tx_bytes' = tx_bytes + can_dlc(skb)
                    /\ tx_packets' = tx_packets + 1
                    /\ last_echo' = skb
               ELSE UNCHANGED txstatv
            /\ queue_stopped' = FALSE
            /\ UNCHANGED <<skb, skb_idle>>
       ELSE UNCHANGED <<txstatv, skb, skb_idle, queue_stopped>>
    /\ cb' = Cb("clear_canintf", IF eflg # 0 THEN "clear_eflg" ELSE "read_flags")
    /\ UNCHANGED <<up, flagv, regv, irqv, xmitv, failed, oops, rxstatv,
                   rx_over_errors, nsubmitted, chip_events, cyclev, txb0,
                   rts_frame, codecv,
                   irq_unserved>>

\* variant: the error register is cleared after every clear-status command
mcp2515_clear_canintf_complete_always_eflg ==
    /\ Completes("clear_canintf")
    /\ IF BitAnd(canintf, CANINTF_TX0IF) # 0
       THEN /\ IF skb # 0
               THEN /\ tx_bytes' = tx_bytes + can_dlc(skb)
                    /\ tx_packets' = tx_packets + 1
                    /\ last_echo' = skb
               ELSE UNCHANGED txstatv
            /\ skb' = 0
            /\ skb_idle' = FALSE
            /\ queue_stopped' = FALSE
       ELSE UNCHANGED <<txstatv, skb, skb_idle, queue_stopped>>
    /\ cb' = Cb("clear_canintf", "clear_eflg")
    /\ UNCHANGED <<up, flagv, regv, irqv, xmitv, failed, oops, rxstatv,
                   rx_over_errors, nsubmitted, chip_events, cyclev, txb0,
                   rts_frame, codecv,
                   irq_unserved>>

mcp2515_clear_canintf_complete ==
    /\ Completes("clear_canintf")
    /\ IF BitAnd(canintf, CANINTF_TX0IF) # 0
       THEN /\ IF skb # 0
               THEN /\ tx_bytes' = tx_bytes + can_dlc(skb)
                    /\ tx_packets' = tx_packets + 1
                    /\ last_echo' = skb
               ELSE UNCHANGED txstatv
            /\ skb' = 0
            /\ skb_idle' = FALSE
            /\ queue_stopped' = FALSE
       ELSE UNCHANGED <<txstatv, skb, skb_idle, queue_stopped>>
    /\ cb' = Cb("clear_canintf", IF eflg # 0 THEN "clear_eflg" ELSE "read_flags")
    /\ UNCHANGED <<up, flagv, regv, irqv, xmitv, failed, oops, rxstatv,
                   rx_over_errors, nsubmitted, chip_events, cyclev, txb0,
                   rts_frame, codecv,
                   irq_unserved>>

\* variant: each overflow bit is counted on its own
mcp2515_clear_eflg_complete_per_bit ==
    /\ Completes("clear_eflg")
    /\ rx_over_errors' =
          rx_over_errors + Bit(eflg, EFLG_RX0OVR) + Bit(eflg, EFLG_RX1OVR)
    /\ cb' = Cb("clear_eflg", "read_flags")
    /\ UNCHANGED <<up, queue_stopped, flagv, skb, regv, irqv, xmitv, failed,
                   oops, rxstatv, txstatv, nsubmitted, chip_events, cyclev,
                   txghostv, codecv,
                   irq_unserved>>

mcp2515_clear_eflg_complete ==
    /\ Completes("clear_eflg")
    /\ rx_over_errors' =
          IF BitAnd(eflg, BitOr(EFLG_RX0OVR, EFLG_RX1OVR)) # 0
          THEN rx_over_errors + 1 ELSE rx_over_errors
    /\ cb' = Cb("clear_eflg", "read_flags")
    /\ UNCHANGED <<up, queue_stopped, flagv, skb, regv, irqv, xmitv, failed,
                   oops, rxstatv, txstatv, nsubmitted, chip_events, cyclev,
                   txghostv, codecv,
                   irq_unserved>>

mcp2515_load_txb0_complete ==
    /\ Completes("load_txb0")
    /\ txb0' = Head(inflight).arg
    /\ cb' = Cb("load_txb0", "rts_txb0")
    /\ UNCHANGED <<up, queue_stopped, flagv, skb, regv, irqv, xmitv, failed,
                   oops, rxstatv, rx_over_errors, txstatv, nsubmitted,
                   chip_events, cyclev, rts_frame, skb_idle, codecv,
                   irq_unserved>>

\* variant: the chain ends once the request-to-send has completed
mcp2515_rts_txb0_complete_goes_idle ==
    /\ Completes("rts_txb0")
    /\ rts_frame' = txb0
    /\ busy' = FALSE
    /\ cb' = CbIdle
    /\ UNCHANGED <<up, queue_stopped, interrupt, transmit, skb, regv, irqv,
                   xmitv, failed, oops, rxstatv, rx_over_errors, txstatv,
                   nsubmitted, chip_events, cyclev, txb0, skb_idle, codecv,
                   irq_unserved>>

mcp2515_rts_txb0_complete ==
    /\ Completes("rts_txb0")
    /\ rts_frame' = txb0
    /\ cb' = Cb("rts_txb0", "read_flags")
    /\ UNCHANGED <<up, queue_stopped, flagv, skb, regv, irqv, xmitv, failed,
                   oops, rxstatv, rx_over_errors, txstatv, nsubmitted,
                   chip_events, cyclev, txb0, skb_idle, codecv,
                   irq_unserved>>

\* the command the running callback sends next; priv->skb is read here
NextCmd(op) ==
    CASE op = "read_flags" -> mcp2515_read_flags
      [] op = "read_rxb0" -> mcp2515_read_rxb0
      [] op = "read_rxb1" -> mcp2515_read_rxb1
      [] op = "clear_canintf" -> mcp2515_clear_canintf
      [] op = "clear_eflg" -> mcp2515_clear_eflg
      [] op = "load_txb0" -> mcp2515_load_txb0(skb)
      [] op = "rts_txb0" -> mcp2515_rts_txb0

\* the callback sends its next command and returns
mcp2515_complete_issue ==
    /\ ~oops /\ cb.next # "none"
    /\ ~(cb.next = "load_txb0" /\ skb = 0)
    /\ \E err \in BOOLEAN : mcp2515_spi_async(NextCmd(cb.next), err)
    /\ cb' = CbIdle
    /\ UNCHANGED <<up, queue_stopped, flagv, skb, regv, irqv, xmitv, oops,
                   rxstatv, rx_over_errors, txstatv, nsubmitted, chip_events,
                   cyclev, txghostv, codecv>>

\* mcp2515_load_txb0(priv->skb) with priv->skb NULL: mcp2515_set_txbuf
\* dereferences skb->data and the kernel stops in the callback
mcp2515_load_txb0_null ==
    /\ ~oops /\ cb.next = "load_txb0" /\ skb = 0
    /\ oops' = TRUE
    /\ UNCHANGED <<up, queue_stopped, flagv, skb, regv, inflight, irqv, xmitv,
                   cb, failed, rxstatv, rx_over_errors, txstatv, nsubmitted,
                   chip_events, cyclev, txghostv, codecv,
                   irq_unserved>>

(* --------------------------- specification ----------------------------- *)
NoFrame == [eff |-> FALSE, rtr |-> FALSE, id |-> 0, dlc |-> 0,
            data |-> [i \in 1..8 |-> 0]]

\* mcp2515_probe: alloc_candev returns zeroed private data, the device is down
InitSeq ==
    /\ up = FALSE /\ queue_stopped = FALSE
    /\ busy = FALSE /\ interrupt = FALSE /\ transmit = FALSE
    /\ skb = 0 /\ canintf = 0 /\ eflg = 0
    /\ inflight = <<>>
    /\ irq_pc = "none" /\ xmit_pc = "none" /\ xmit_skb = 0 /\ xmit_ret = "none"
    /\ cb = CbIdle /\ failed = FALSE /\ oops = FALSE
    /\ rx_packets = 0 /\ rx_dropped = 0 /\ rx_over_errors = 0
    /\ tx_packets = 0 /\ tx_bytes = 0 /\ last_echo = 0
    /\ nsubmitted = 0 /\ chip_events = 0 /\ rd0 = 0 /\ rd1 = 0
    /\ txb0 = 0 /\ rts_frame = 0 /\ skb_idle = FALSE
    /\ irq_unserved = FALSE

Init ==
    /\ InitSeq
    /\ frame = NoFrame /\ tx_buf = <<>> /\ rx_frame = NoFrame
    /\ codec_pc = "off"

Next ==
    \/ mcp2515_interrupt
    \/ mcp2515_interrupt_issue
    \/ \E valid \in BOOLEAN : mcp2515_start_xmit(valid)
    \/ mcp2515_start_xmit_issue
    \/ mcp2515_stop
    \/ \E ok \in BOOLEAN : mcp2515_open(ok)
    \/ \E ci \in CanintfReplies, ef \in EflgReplies :
          mcp2515_read_flags_complete(ci, ef)
    \/ \E alloc_ok \in BOOLEAN : mcp2515_read_rxb0_complete(alloc_ok)
    \/ \E alloc_ok \in BOOLEAN : mcp2515_read_rxb1_complete(alloc_ok)
    \/ mcp2515_clear_canintf_complete
    \/ mcp2515_clear_eflg_complete
    \/ mcp2515_load_txb0_complete
    \/ mcp2515_rts_txb0_complete
    \/ mcp2515_complete_issue
    \/ mcp2515_load_txb0_null

Spec == Init /\ [][Next]_vars

TypeOK ==
    /\ up \in BOOLEAN /\ queue_stopped \in BOOLEAN
    /\ busy \in BOOLEAN /\ interrupt \in BOOLEAN /\ transmit \in BOOLEAN
    /\ skb \in 0..MaxFrames
    /\ canintf \in CanintfReplies /\ eflg \in EflgReplies
    /\ irq_pc \in {"none", "read_flags"}
    /\ xmit_pc \in {"none", "load_txb0"}
    /\ nsubmitted \in 0..MaxFrames
    /\ chip_events \in 0..MaxChipEvents
    /\ irq_unserved \in BOOLEAN

(* ------------- the sequencer with a responsive bus and chip ------------ *)
\* the chip raises TX0IF only for a frame whose request-to-send it received
\* and whose TX0IF has not been cleared by a clear-status command since
Tx0ifPossible == rts_frame # 0 /\ rts_frame # last_echo

ChipReplies ==
    {r \in CanintfReplies \X EflgReplies :
        BitAnd(r[1], CANINTF_TX0IF) # 0 => Tx0ifPossible}

\* the device is opened and stays up, spi_async accepts every message, and
\* the chip answers a flags read with one of ChipReplies
NextLive ==
    \/ mcp2515_interrupt
    \/ mcp2515_interrupt_issue /\ ~failed'
    \/ \E valid \in BOOLEAN : mcp2515_start_xmit(valid)
    \/ mcp2515_start_xmit_issue /\ ~failed'
    \/ \E ok \in BOOLEAN : mcp2515_open(ok)
    \/ \E r \in ChipReplies : mcp2515_read_flags_complete(r[1], r[2])
    \/ \E alloc_ok \in BOOLEAN : mcp2515_read_rxb0_complete(alloc_ok)
    \/ \E alloc_ok \in BOOLEAN : mcp2515_read_rxb1_complete(alloc_ok)
    \/ mcp2515_clear_canintf_complete
    \/ mcp2515_clear_eflg_complete
    \/ mcp2515_load_txb0_complete
    \/ mcp2515_rts_txb0_complete
    \/ mcp2515_complete_issue /\ ~failed'

\* a handler that holds a command sends it, and the SPI core completes every
\* message it accepted and runs its completion callback
Progress ==
    \/ mcp2515_interrupt_issue /\ ~failed'
    \/ mcp2515_start_xmit_issue /\ ~failed'
    \/ mcp2515_complete_issue /\ ~failed'
    \/ \E r \in ChipReplies : mcp2515_read_flags_complete(r[1], r[2])
    \/ \E alloc_ok \in BOOLEAN : mcp2515_read_rxb0_complete(alloc_ok)
    \/ \E alloc_ok \in BOOLEAN : mcp2515_read_rxb1_complete(alloc_ok)
    \/ mcp2515_clear_canintf_complete
    \/ mcp2515_clear_eflg_complete
    \/ mcp2515_load_txb0_complete
    \/ mcp2515_rts_txb0_complete

SpecLive == Init /\ [][NextLive]_vars /\ WF_vars(Progress)

(* ------------------- the codec as a round trip ------------------------- *)
\* identifiers of standard frames (11 bits) and of extended frames (29 bits)
SffIds == {0, 1, 291, 1024, 1365, 2047}
EffIds == {0, 291, 65536, 196608, 262143, 262144, 305419896, 357913941,
           178956970, 536870911}
Payloads == { <<1, 2, 3, 4, 5, 6, 7, 8>>,
              <<255, 255, 255, 255, 255, 255, 255, 255>>,
              <<128, 64, 32, 16, 8, 4, 2, 0>> }

\* the valid CAN frames: length 0..8, identifier width matching the tag
CodecFrames ==
    { [eff |-> e, rtr |-> r, id |-> i, dlc |-> d, data |-> p] :
        e \in BOOLEAN, r \in BOOLEAN, i \in SffIds \cup EffIds,
        d \in 0..CAN_MAX_DLC, p \in Payloads }

InitCodec ==
    /\ InitSeq
    /\ frame \in { f \in CodecFrames : f.eff \/ f.id \in SffIds }
    /\ tx_buf = <<>> /\ rx_frame = NoFrame
    /\ codec_pc = "encode"

\* mcp2515_load_txb0: tx_buf + 1 is filled by mcp2515_set_txbuf
CodecEncode ==
    /\ codec_pc = "encode"
    /\ tx_buf' = mcp2515_set_txbuf(frame)
    /\ codec_pc' = "decode"
    /\ UNCHANGED <<seqv, frame, rx_frame>>

\* the bytes come back as a receive buffer behind the instruction byte; the
\* bytes behind the data are whatever the buffer held
CodecDecode(pad) ==
    /\ codec_pc = "decode"
    /\ rx_frame' = mcp2515_read_rxb_decode(
                      <<pad>> \o tx_buf \o [i \in 1..(13 - Len(tx_buf)) |-> pad])
    /\ codec_pc' = "done"
    /\ UNCHANGED <<seqv, frame, tx_buf>>

NextCodec ==
    \/ CodecEncode
    \/ \E pad \in {0, 255} : CodecDecode(pad)

SpecCodec == InitCodec /\ [][NextCodec]_vars

(* ------------------------------ helpers -------------------------------- *)
\* contexts that have decided to send a command and have not yet sent it
Issuers ==
    (IF irq_pc # "none" THEN 1 ELSE 0) + (IF xmit_pc # "none" THEN 1 ELSE 0)
    + (IF cb.next # "none" THEN 1 ELSE 0)

(* ------------------------------ claims --------------------------------- *)

\* C1: at most one command is outstanding in every reachable state: the
\* commands handed to the transport and the contexts about to hand one over
\* number at most one together, and only while busy is set; a context gets to
\* send only by switching busy from 0 to 1 or by running as the completion
\* callback of the previous command.
C1_OneOutstanding ==
    /\ [](/\ Len(inflight) + Issuers <= 1
          /\ (Len(inflight) + Issuers > 0 => busy))
    /\ [][/\ (irq_pc' # "none" /\ irq_pc = "none") => (~busy /\ busy')
          /\ (xmit_pc' # "none" /\ xmit_pc = "none") => (~busy /\ busy')
          /\ (cb'.next # "none" /\ cb.next = "none") =>
                (Len(inflight) = 1 /\ inflight' = <<>>)
          /\ Len(inflight') > Len(inflight) => Issuers = 1 /\ Issuers' = 0]_vars

C1_Witness == Len(inflight) = 1 /\ interrupt /\ transmit

\* C2: a producer arriving while busy is set only sets its own pending flag:
\* the interrupt sets interrupt and leaves busy, transmit and the outstanding
\* command alone; the submission sets transmit and leaves busy, interrupt and
\* the outstanding command alone; neither gets to send a command.
C2_BusyProducerOnlySetsFlag ==
    [][/\ (busy /\ mcp2515_interrupt) =>
             /\ interrupt'
             /\ UNCHANGED <<busy, transmit, inflight, irq_pc, xmit_pc, cb>>
       /\ (busy /\ mcp2515_start_xmit(TRUE)) =>
             /\ transmit'
             /\ UNCHANGED <<busy, interrupt, inflight, irq_pc, xmit_pc, cb>>]_vars

C2_Witness == interrupt /\ transmit /\ cb.next # "none"

\* C3 as stated: a submission while busy returns busy-rejected and leaves the
\* active-transmit slot alone.
C3_BusyRejected ==
    [][(busy /\ mcp2515_start_xmit(TRUE)) =>
          (xmit_ret' = "NETDEV_TX_BUSY" /\ skb' = skb)]_vars

\* C3 amended: a valid frame submitted while busy is accepted: start_xmit
\* returns NETDEV_TX_OK, stops the queue, stores the frame in priv->skb and
\* sets transmit without sending a command; start_xmit never returns
\* busy-rejected.
C3_BusyAccepted ==
    /\ [](xmit_ret \in {"none", "NETDEV_TX_OK"})
    /\ [][(busy /\ mcp2515_start_xmit(TRUE)) =>
             /\ xmit_ret' = "NETDEV_TX_OK"
             /\ skb' = nsubmitted + 1
             /\ queue_stopped'
             /\ transmit'
             /\ UNCHANGED <<inflight, xmit_pc>>]_vars

C3_Witness ==
    /\ transmit /\ skb # 0 /\ ~skb_idle
    /\ queue_stopped /\ xmit_ret = "NETDEV_TX_OK" /\ xmit_pc = "none"

\* C4: a frame submitted while idle is loaded with that frame, then sent
\* (request-to-send), then the flags are read; a flags read showing the
\* transmit bit (and no receive bit) leads to the clear-status command, at
\* whose completion the frame in the slot is counted and echoed once, the slot
\* is cleared and the queue is woken; the echoed frame is newer than every
\* frame echoed before (none is echoed twice), a frame submitted while idle
\* is not echoed before its request-to-send completed, and no other step
\* echoes or counts a frame.
C4_TransmitChain ==
    /\ [](/\ cb.h = "load_txb0" => cb.next = "rts_txb0"
          /\ cb.h = "rts_txb0" => cb.next = "read_flags"
          /\ (cb.h = "read_flags" /\ BitAnd(canintf, CANINTF_TX0IF) # 0
                /\ BitAnd(canintf, CANINTF_RX0IF + CANINTF_RX1IF) = 0)
                => cb.next = "clear_canintf"
          /\ xmit_pc = "load_txb0" => (skb_idle /\ skb = xmit_skb))
    /\ [][/\ (mcp2515_start_xmit_issue /\ inflight' # inflight) =>
                inflight' = <<Cmd("load_txb0", xmit_skb)>>
          /\ mcp2515_clear_canintf_complete =>
                IF BitAnd(canintf, CANINTF_TX0IF) # 0
                THEN /\ skb' = 0
                     /\ ~queue_stopped'
                     /\ IF skb # 0
                        THEN /\ skb > last_echo
                             /\ last_echo' = skb
                             /\ tx_packets' = tx_packets + 1
                             /\ tx_bytes' = tx_bytes + can_dlc(skb)
                             /\ skb_idle => rts_frame = skb
                        ELSE UNCHANGED txstatv
                ELSE UNCHANGED <<skb, queue_stopped, txstatv>>
          /\ txstatv' # txstatv => mcp2515_clear_canintf_complete]_vars

C4_Witness ==
    /\ last_echo = 1 /\ rts_frame = 1 /\ txb0 = 1
    /\ skb = 0 /\ ~queue_stopped /\ cb.h = "clear_canintf"
    /\ tx_packets = 1 /\ tx_bytes = can_dlc(1)

\* C5: in one flags cycle receive buffer 0 is read once exactly if the
\* buffer-0 bit was set in the flags read and receive buffer 1 once exactly if
\* the buffer-1 bit was set, buffer 0 first: no read is spurious or repeated,
\* buffer 1 is read only after buffer 0 has had its read, and when the next
\* flags read (or the load that precedes it) is about to be sent both counts
\* equal their bits.
C5_RxReadsPerCycle ==
    /\ rd0 <= Bit(canintf, CANINTF_RX0IF)
    /\ rd1 <= Bit(canintf, CANINTF_RX1IF)
    /\ (rd1 = 1 \/ cb.next = "read_rxb1"
          \/ (inflight # <<>> /\ Head(inflight).op = "read_rxb1"))
         => rd0 = Bit(canintf, CANINTF_RX0IF)
    /\ (cb.next \in {"read_flags", "load_txb0"} \/ irq_pc = "read_flags")
         => (/\ rd0 = Bit(canintf, CANINTF_RX0IF)
             /\ rd1 = Bit(canintf, CANINTF_RX1IF))

C5_Witness ==
    /\ canintf = CANINTF_RX0IF /\ rd0 = 1 /\ rd1 = 0
    /\ cb.h = "read_rxb0" /\ cb.next = "read_flags"

\* C6: rx_over_errors grows by exactly one at the completion of a clear-error
\* command whose mask has one or both overflow bits, stays as it is at the
\* completion of one whose mask has neither, and changes at no other step.
C6_OverflowOnce ==
    [][/\ mcp2515_clear_eflg_complete =>
             rx_over_errors' = rx_over_errors
                + (IF (Head(inflight).arg \div EFLG_RX0OVR) % 4 # 0 THEN 1 ELSE 0)
       /\ rx_over_errors' # rx_over_errors => mcp2515_clear_eflg_complete]_vars

C6_Witness ==
    /\ cb.h = "clear_eflg" /\ eflg = EFLG_RX0OVR + EFLG_RX1OVR
    /\ rx_over_errors = 1

C8_FlagsClearAfterStop ==
    /\ (~busy /\ ~interrupt /\ ~transmit)
    /\ [][mcp2515_stop => (~busy' /\ ~interrupt' /\ ~transmit')]_vars

\* C9: once spi_async has failed the chain is abandoned: busy stays set, no
\* command is outstanding and no context is about to send one, in every later
\* state; producers only set their flags.
C9_FailureStalls ==
    /\ [](failed => (busy /\ inflight = <<>> /\ Issuers = 0 /\ cb = CbIdle))
    /\ [][failed => (failed' /\ UNCHANGED <<busy, inflight, irq_pc, xmit_pc, cb>>)]_vars

C9_Witness == failed /\ interrupt /\ transmit /\ busy /\ inflight = <<>>

\* the command that follows a receive-buffer read, from the state before it
AfterRxb0 ==
    IF BitAnd(canintf, CANINTF_RX1IF) # 0 THEN "read_rxb1"
    ELSE IF transmit THEN "load_txb0" ELSE "read_flags"
AfterRxb1 == IF transmit THEN "load_txb0" ELSE "read_flags"

\* C10: when the allocation fails at the completion of a receive-buffer read
\* the frame is not delivered, rx_dropped grows by one, and the callback goes
\* on to the same command as after a delivery.
C10_AllocFailureContinues ==
    [][/\ mcp2515_read_rxb0_complete(FALSE) =>
             /\ rx_dropped' = rx_dropped + 1 /\ rx_packets' = rx_packets
             /\ cb'.next = AfterRxb0
       /\ mcp2515_read_rxb0_complete(TRUE) =>
             /\ rx_dropped' = rx_dropped /\ rx_packets' = rx_packets + 1
             /\ cb'.next = AfterRxb0
       /\ mcp2515_read_rxb1_complete(FALSE) =>
             /\ rx_dropped' = rx_dropped + 1 /\ rx_packets' = rx_packets
             /\ cb'.next = AfterRxb1
       /\ mcp2515_read_rxb1_complete(TRUE) =>
             /\ rx_dropped' = rx_dropped /\ rx_packets' = rx_packets + 1
             /\ cb'.next = AfterRxb1]_vars

C10_Witness ==
    /\ cb.h = "read_rxb0" /\ cb.next = "read_rxb1"
    /\ rx_dropped = 1 /\ rx_packets = 0

\* C11: an interrupt that arrives while busy is set is never lost: busy is not
\* cleared before a flags read has been handed to spi_async after that arrival
\* (irq_unserved is set by the arrival and reset by the next flags read sent)
C11_InterruptServed ==
    /\ [](~busy => ~irq_unserved)
    /\ [][(busy /\ ~busy') => ~irq_unserved]_vars

\* an interrupt arrived while busy and a flags read was sent after it
C11_Witness ==
    /\ interrupt /\ ~irq_unserved
    /\ inflight = <<mcp2515_read_flags>> /\ chip_events > 0

C13_OnlyExitToIdle ==
    [][(busy /\ ~busy') =>
          /\ \E ef \in EflgReplies : mcp2515_read_flags_complete(0, ef)
          /\ ~transmit /\ ~interrupt
          /\ canintf' = 0 /\ cb' = CbIdle]_vars

\* the machine went idle after a chain that handled chip events and a frame
C13_Witness ==
    /\ ~busy /\ inflight = <<>> /\ cb = CbIdle /\ Issuers = 0
    /\ canintf = 0 /\ chip_events > 0 /\ rts_frame # 0

\* the command a producer hands to spi_async in this step, <<>> if none
Sent == IF Len(inflight') > Len(inflight) THEN <<inflight'[Len(inflight')]>> ELSE <<>>

\* C14 as stated: either producer that finds busy clear sets busy and the first
\* command it sends is the flags read
C14_IdleProducerReadsFlags ==
    /\ [][(~busy /\ mcp2515_interrupt) => (busy' /\ irq_pc' = "read_flags")]_vars
    /\ [][(~busy /\ mcp2515_start_xmit(TRUE)) =>
             (busy' /\ xmit_pc' = "read_flags")]_vars
    /\ [][(mcp2515_interrupt_issue \/ mcp2515_start_xmit_issue) =>
             Sent \in {<<>>, <<mcp2515_read_flags>>}]_vars

\* C14 amended: a producer that finds busy clear sets busy and sends the first
\* command itself; the interrupt sends the flags read, a submission sends the
\* load of transmit buffer 0 with its frame
C14_IdleProducerStartsChain ==
    /\ [][(~busy /\ mcp2515_interrupt) =>
             (busy' /\ irq_pc' = "read_flags" /\ inflight' = <<>>)]_vars
    /\ [][(~busy /\ mcp2515_start_xmit(TRUE)) =>
             /\ busy' /\ xmit_pc' = "load_txb0" /\ inflight' = <<>>
             /\ xmit_skb' = skb' /\ skb' # 0]_vars
    /\ [][mcp2515_interrupt_issue =>
             Sent \in {<<>>, <<mcp2515_read_flags>>}]_vars
    /\ [][mcp2515_start_xmit_issue =>
             Sent \in {<<>>, <<mcp2515_load_txb0(xmit_skb)>>}]_vars

\* the first command of a chain is the load sent by an idle submission
C14_Witness ==
    /\ busy /\ skb # 0 /\ skb_idle /\ xmit_pc = "none"
    /\ inflight = <<mcp2515_load_txb0(skb)>>
    /\ chip_events = 0 /\ txb0 = 0

\* the completion of the last receive-buffer read of a cycle: buffer 0 with
\* the buffer-1 bit clear in the last flags read, or buffer 1
LastRxbComplete ==
    \E alloc_ok \in BOOLEAN :
        \/ BitAnd(canintf, CANINTF_RX1IF) = 0 /\ mcp2515_read_rxb0_complete(alloc_ok)
        \/ mcp2515_read_rxb1_complete(alloc_ok)

\* C15 as stated: after the last receive-buffer read the sequencer takes the
\* three-way branch: load if transmit is set, else clear interrupt and re-read
\* the flags if interrupt is set, else clear busy and go idle
C15_ThreeWayAfterRxb ==
    [][LastRxbComplete =>
          IF transmit
          THEN ~transmit' /\ cb'.next = "load_txb0" /\ UNCHANGED <<busy, interrupt>>
          ELSE IF interrupt
          THEN ~interrupt' /\ cb'.next = "read_flags" /\ UNCHANGED <<busy, transmit>>
          ELSE ~busy' /\ cb' = CbIdle]_vars

\* C15 amended: after the last receive-buffer read the branch is two-way: if
\* transmit is set it is cleared and the load is next, otherwise the flags
\* read is next whatever interrupt is; interrupt is not changed and busy
\* stays set
C15_TwoWayAfterRxb ==
    [][LastRxbComplete =>
          /\ busy /\ UNCHANGED <<busy, interrupt>>
          /\ IF transmit
             THEN ~transmit' /\ cb'.next = "load_txb0"
             ELSE ~transmit' /\ cb'.next = "read_flags"]_vars

\* a receive-buffer read completed with interrupt set and nothing to transmit:
\* the flags read is next and interrupt is still set
C15_Witness ==
    /\ cb.h \in {"read_rxb0", "read_rxb1"} /\ cb.next = "read_flags"
    /\ interrupt /\ busy /\ rx_packets > 0

\* the step chosen for a status register value and the two pending flags
AfterFlags(ci, tx, irq) ==
    IF ci % 2 = 1 THEN "read_rxb0"
    ELSE IF (ci \div 2) % 2 = 1 THEN "read_rxb1"
    ELSE IF ci > 0 THEN "clear_canintf"
    ELSE IF tx THEN "load_txb0"
    ELSE IF irq THEN "read_flags"
    ELSE "none"

\* C16: at the completion of a flags read the next step follows the strict
\* priority buffer-0 bit, buffer-1 bit, any other status bit, transmit,
\* interrupt, idle; transmit is cleared only when the load is chosen, and then
\* interrupt is left as it is; interrupt is cleared only when the re-read is
\* chosen; busy is cleared only when nothing is chosen
C16_FlagsPriority ==
    [][(Completes("read_flags") /\ canintf' \in CanintfReplies) =>
          /\ mcp2515_read_flags_complete(canintf', eflg')
          /\ cb'.next = AfterFlags(canintf', transmit, interrupt)
          /\ (cb'.next = "load_txb0") => canintf' = 0
          /\ transmit' = (transmit /\ cb'.next # "load_txb0")
          /\ interrupt' = (interrupt /\ (canintf' # 0 \/ transmit))
          /\ busy' = (cb'.next # "none")]_vars

\* both flags were set at a zero-status flags read: the load is next, transmit
\* is cleared and interrupt is still set
C16_Witness ==
    /\ cb = Cb("read_flags", "load_txb0") /\ canintf = 0
    /\ interrupt /\ ~transmit /\ busy

\* C17: after a clear-status completion the next command is clear-error iff
\* the error register of the last flags read is nonzero, else the flags read;
\* after a clear-error completion it is the flags read; clear-error is chosen
\* and sent only by the callback of a clear-status completion
C17_ClearErrorAfterClearStatus ==
    /\ [](/\ cb.h = "clear_canintf" =>
               cb.next = (IF eflg # 0 THEN "clear_eflg" ELSE "read_flags")
          /\ cb.h = "clear_eflg" => cb.next = "read_flags"
          /\ cb.next = "clear_eflg" => cb.h = "clear_canintf")
    /\ [][(Sent # <<>> /\ Sent[1].op = "clear_eflg") =>
             /\ mcp2515_complete_issue
             /\ cb.h = "clear_canintf" /\ eflg # 0
             /\ Sent[1].arg = eflg]_vars

\* a clear-status command completed with a nonzero error register that has
\* no overflow bit: clear-error is next
C17_Witness == cb = Cb("clear_canintf", "clear_eflg") /\ eflg = 1

\* a producer acts: an interrupt arrives or a frame is submitted
ProducerStep ==
    \/ mcp2515_interrupt
    \/ \E valid \in BOOLEAN : mcp2515_start_xmit(valid)

\* no command is outstanding and no context is about to send one
Quiescent == ~busy /\ inflight = <<>> /\ cb = CbIdle /\ Issuers = 0

C19_IdleHasNoPendingWork ==
    /\ [](~busy => (~interrupt /\ ~transmit))
    /\ [][((interrupt' /\ ~interrupt) \/ (transmit' /\ ~transmit)) =>
             (busy /\ busy')]_vars
    /\ [][(busy /\ ~busy') =>
             (~interrupt /\ ~transmit /\ ~interrupt' /\ ~transmit')]_vars

\* a frame recorded as pending while busy was served and the machine is idle
C19_Witness ==
    /\ ~busy /\ ~interrupt /\ ~transmit
    /\ skb # 0 /\ ~skb_idle /\ rts_frame = skb

\* C20: while the device is up, whenever priv->skb holds a frame the transmit
\* queue is stopped, and a submission never replaces a frame that is still in
\* priv->skb
C20_SlotImpliesQueueStopped ==
    /\ []((up /\ skb # 0) => queue_stopped)
    /\ [][mcp2515_start_xmit(TRUE) => skb = 0]_vars

\* C21: whenever a load of transmit buffer 0 is handed to spi_async, priv->skb
\* is not NULL, the load carries that frame, it is the most recently submitted
\* frame and it has not been reported complete; a load is never attempted with
\* priv->skb NULL, and priv->skb is not cleared while transmit is set
C21_LoadCarriesLatestFrame ==
    /\ [](~oops /\ ~(cb.next = "load_txb0" /\ skb = 0))
    /\ [][(Sent # <<>> /\ Sent[1].op = "load_txb0") =>
             /\ skb # 0 /\ Sent[1].arg = skb
             /\ skb = nsubmitted /\ last_echo # skb]_vars
    /\ [][(transmit /\ skb # 0) => skb' # 0]_vars

=============================================================================
